---------------------------- MODULE Spec2Model ----------------------------
(***************************************************************************)
(* TemplateTrigger: the Observer of src/tt.py.                             *)
(*                                                                         *)
(* One Observer, the thread that owns it ("main") and the background       *)
(* worker threads that Observer.run creates.  Every thread step is one     *)
(* action; a step is a stretch of code between two points where another    *)
(* thread can observe or change the Observer.                              *)
(*                                                                         *)
(* Environment of Spec: listeners return normally and do not call back     *)
(* into the Observer; a single caller thread; update() is called directly  *)
(* only while no background run exists (spec.md section 5).                *)
(*                                                                         *)
(* Numbers: a similarity is the exact rational <<num, den>>; the threshold *)
(* is a number of hundredths.  Floating point rounding is not modelled.    *)
(***************************************************************************)
EXTENDS Integers, Sequences, FiniteSets, TLC

(***************************************************************************)
(* Program constants                                                       *)
(***************************************************************************)
MAX_DIFF == 3 * 255 * 255

ON_FOUND == 1

ON_LOST == 2

ON_MOVE == 3

TRIGGERS == <<ON_FOUND, ON_LOST, ON_MOVE>>

\* The value None of self._lastFound; a location is a pair <<x, y>>.
None == <<>>

\* No thread handle: self._current_thread is None.
NoThread == -1

\* The thread that constructs the Observer and calls its methods.
MainThread == 0

\* A second thread that calls methods of the Observer.
OtherThread == -2

\* No event: the trigger of no call of _trigger.
NoTrigger == 0

(***************************************************************************)
(* Bounds of the model                                                     *)
(***************************************************************************)
\* Registrations held at a time (over the three triggers).
MaxRegs == 2

\* Worker threads that exist at the same time.
MaxWorkers == 2

\* Registrations held at a time in SpecRegistry.
MaxLen == 3

(***************************************************************************)
(* Inputs                                                                  *)
(***************************************************************************)
\* Threads are numbered: the caller is 0, the workers are 1, 2, ...
Callers == {MainThread}

WorkerIds == 1..MaxWorkers

Executors == Callers \cup WorkerIds

\* The callers of a program in which two threads use the Observer.
TwoCallers == {MainThread, OtherThread}

\* The functions a caller registers.
Callbacks == {"f", "g"}

\* What a caller can pass as trigger: the three events and an unknown one.
TriggerArgs == {ON_FOUND, ON_LOST, ON_MOVE, 4}

\* Where cv2.minMaxLoc can put the best match.
Locations == {<<10, 10>>, <<12, 10>>}

\* Templates: 3 channels, 2x2; 4 channels with one opaque pixel of two;
\* 4 channels, fully transparent (degenerate).
\* alpha holds the alpha channel, each value 0 or 255.
Templates3 == [dim |-> 3, shape |-> <<2, 2>>, alpha |-> <<>>]

Templates4 == [dim |-> 4, shape |-> <<1, 2>>, alpha |-> <<255, 0>>]

Templates0 == [dim |-> 4, shape |-> <<1, 2>>, alpha |-> <<0, 0>>]

\* The Observers constructed: <<template, threshold>>, the threshold in
\* hundredths: the example's 0.95, 1, and the default 0.  The degenerate
\* template with each of them.
Observers ==
    { <<Templates3, 95>>, <<Templates4, 100>>,
      <<Templates0, 0>>, <<Templates0, 95>>, <<Templates0, 100>> }

\* Raw TM_SQDIFF values of the best match for a template of weight sqAlpha,
\* chosen in hundredths of the largest possible distance MAX_DIFF * sqAlpha:
\* below zero, zero, at and just past the example's threshold, at and past
\* the largest distance.
RawPercents == {-1, 0, 5, 6, 100, 101}

RawVals(sqAlpha) == { (p * MAX_DIFF * sqAlpha) \div 100 : p \in RawPercents }

VARIABLES
    sq_alpha,        \* self._sq_alpha
    threshold,       \* self._threshold, in hundredths
    lastFound,       \* self._lastFound
    fun_register,    \* self._fun_register: trigger -> sequence of callbacks
    current_thread,  \* self._current_thread: NoThread or the worker's id
    stop_event,      \* worker id -> the flag of its threading.Event
    pc,              \* executor -> where the thread is
    frame,           \* executor -> the locals of the update() it executes
    handle,          \* caller -> the locals (thread, stop_event) of run()/stop()
    raised,          \* caller -> the exception its last call ended with, or ""
    fired,           \* the last FOUND or LOST that _trigger dispatched: <<trigger, arg>>
    timed_out,       \* worker id -> a wait of this run has timed out
    ticked,          \* worker id -> this run has called update()
    stop_midtick,    \* caller -> its stop() set the event while the worker was in update()
    after_stop       \* caller -> its stop() returned and it has called nothing but run() since

vars == <<sq_alpha, threshold, lastFound, fun_register, current_thread,
          stop_event, pc, frame, handle, raised, fired, timed_out, ticked,
          stop_midtick, after_stop>>

(***************************************************************************)
(* Observer.__init__                                                       *)
(***************************************************************************)
RECURSIVE SumSquares(_)
SumSquares(mask) ==
    IF mask = <<>> THEN 0
    ELSE Head(mask) * Head(mask) + SumSquares(Tail(mask))

\* np.float32(np.clip(a * (1. / 255), 0, 1)) for alpha values 0 and 255.
TemplateMask(template) ==
    [i \in 1..Len(template.alpha) |-> template.alpha[i] \div 255]

\* self._sq_alpha as __init__ sets it.
SqAlpha(template) ==
    IF template.dim = 4 THEN SumSquares(TemplateMask(template))
    ELSE template.shape[1] * template.shape[2]

\* The functions in the list funs.
Members(funs) == {funs[i] : i \in DOMAIN funs}

\* The locals of an update() not in progress.
\* location, sim: what check() returned; events: the calls of _trigger of the
\* branch taken, k: the one in progress, idx: the index of its list iterator;
\* pending: the functions that were in the list of the event when _trigger
\* was called and that its loop has not called.
NoFrame ==
    [location |-> None, sim |-> <<0, 1>>, events |-> <<>>, k |-> 0,
     idx |-> 0, pending |-> {}]

Init ==
    /\ \E o \in Observers :
           /\ o[1].dim \in {3, 4}
           /\ sq_alpha = SqAlpha(o[1])
           /\ threshold = o[2]
    /\ lastFound = None
    /\ fun_register = [t \in {ON_FOUND, ON_LOST, ON_MOVE} |-> <<>>]
    /\ current_thread = NoThread
    /\ stop_event = [w \in WorkerIds |-> FALSE]
    /\ pc = [e \in Executors |-> IF e \in Callers THEN "idle" ELSE "none"]
    /\ frame = [e \in Executors |-> NoFrame]
    /\ handle = [c \in Callers |-> NoThread]
    /\ raised = [c \in Callers |-> ""]
    /\ fired = <<NoTrigger, None>>
    /\ timed_out = [w \in WorkerIds |-> FALSE]
    /\ ticked = [w \in WorkerIds |-> FALSE]
    /\ stop_midtick = [c \in Callers |-> FALSE]
    /\ after_stop = [c \in Callers |-> FALSE]

(***************************************************************************)
(* Observer.check                                                          *)
(***************************************************************************)
\* No clipping.
ClipNone(x) == x

\* np.clip(x, 0, 1) of the rational x = <<num, den>>, den > 0.
Clip(x) ==
    IF x[1] <= 0 THEN <<0, 1>>
    ELSE IF x[1] >= x[2] THEN <<1, 1>>
    ELSE x

\* 1 - val / MAX_DIFF / sqAlpha, clipped.
Similarity(val, sqAlpha) ==
    Clip(<<MAX_DIFF * sqAlpha - val, MAX_DIFF * sqAlpha>>)

\* check() without its lines 49 and 50.
checkNoSentinel(sqAlpha, location, val) ==
    <<location, Similarity(val, sqAlpha)>>

\* check(): <<location, similarity>> for the best match (location, val) that
\* cv2 finds on the captured screen.
check(sqAlpha, location, val) ==
    IF sqAlpha = 0 THEN << <<0, 0>>, <<1, 1>> >>
    ELSE <<location, Similarity(val, sqAlpha)>>

(***************************************************************************)
(* Observer.update                                                         *)
(***************************************************************************)
\* A comparison that leaves out equality.
IsFoundStrict(sim, thr) == sim[1] * 100 > thr * sim[2]

\* sim >= self._threshold, the threshold in hundredths.
IsFound(sim, thr) == sim[1] * 100 >= thr * sim[2]

\* The branches with "if" where line 80 has "elif".
UpdateEventsIf(last, location, found) ==
    IF found
    THEN (IF last = None THEN << <<ON_FOUND, location>> >> ELSE <<>>)
         \o (IF location # last THEN << <<ON_MOVE, location>> >> ELSE <<>>)
    ELSE IF last # None THEN << <<ON_LOST, last>> >>
         ELSE <<>>

\* The branches without the test of line 77: every match fires FOUND.
UpdateEventsRefire(last, location, found) ==
    IF found THEN << <<ON_FOUND, location>> >>
    ELSE IF last # None THEN << <<ON_LOST, last>> >>
         ELSE <<>>

\* The calls of _trigger that update() makes, in order, each <<trigger, arg>>:
\* the branches of lines 75 to 88.
UpdateEvents(last, location, found) ==
    IF found
    THEN IF last = None THEN << <<ON_FOUND, location>> >>
         ELSE IF location # last THEN << <<ON_MOVE, location>> >>
         ELSE <<>>
    ELSE IF last # None THEN << <<ON_LOST, last>> >>
         ELSE <<>>

\* update() without its line 88.
UpdateLastFoundKeep(last, location, found) ==
    IF found THEN location ELSE last

\* self._lastFound when update() returns (line 84, line 88, or neither).
UpdateLastFound(last, location, found) ==
    IF found THEN location ELSE None

\* Line 74: location, sim = self.check() by executor e, the screen showing
\* the best match (location, val).
UpdateCheck(e, location, val) ==
    /\ pc[e] = "update"
    /\ LET r == check(sq_alpha, location, val)
       IN  frame' = [frame EXCEPT ![e] = [NoFrame EXCEPT !.location = r[1], !.sim = r[2]]]
    /\ pc' = [pc EXCEPT ![e] = "classify"]
    /\ ticked' = [w \in WorkerIds |-> w = e \/ ticked[w]]
    /\ UNCHANGED <<sq_alpha, threshold, lastFound, fun_register, current_thread,
                   stop_event, handle, raised, fired, timed_out, stop_midtick,
                   after_stop>>

\* Where executor e goes when its update() returns.
AfterUpdate(e) == IF e \in Callers THEN "idle" ELSE "wait"

\* Lines 75 to 88 up to the first call of _trigger, or to the end when the
\* branch taken calls none.
UpdateClassify(e) ==
    /\ pc[e] = "classify"
    /\ LET found  == IsFound(frame[e].sim, threshold)
           events == UpdateEvents(lastFound, frame[e].location, found)
       IN  /\ IF events = <<>>
              THEN /\ lastFound' = UpdateLastFound(lastFound, frame[e].location, found)
                   /\ pc' = [pc EXCEPT ![e] = AfterUpdate(e)]
                   /\ frame' = [frame EXCEPT ![e] = NoFrame]
              ELSE /\ lastFound' = lastFound
                   /\ pc' = [pc EXCEPT ![e] = "dispatch"]
                   /\ frame' = [frame EXCEPT ![e].events = events, ![e].k = 1,
                                             ![e].idx = 1,
                                             ![e].pending = Members(fun_register[events[1][1]])]
    /\ UNCHANGED <<sq_alpha, threshold, fun_register, current_thread,
                   stop_event, handle, raised, fired, timed_out, ticked,
                   stop_midtick, after_stop>>

(***************************************************************************)
(* Observer._trigger                                                       *)
(***************************************************************************)
\* Whether the list iterator of the for loop has a next element.
HasNext(funs, idx) == idx <= Len(funs)

\* The event <<trigger, arg>> that executor e is dispatching.
Event(e) == frame[e].events[frame[e].k]

\* One iteration of the for loop: fun(*args) for the next registered function.
TriggerCall(e) ==
    /\ pc[e] = "dispatch"
    /\ LET funs == fun_register[Event(e)[1]]
       IN  /\ HasNext(funs, frame[e].idx)
           /\ frame' = [frame EXCEPT
                  ![e].pending = @ \ {funs[frame[e].idx]},
                  ![e].idx = @ + 1]
    /\ UNCHANGED <<sq_alpha, threshold, lastFound, fun_register, current_thread,
                   stop_event, pc, handle, raised, fired, timed_out, ticked,
                   stop_midtick, after_stop>>

\* The for loop ends and _trigger returns: update() goes on to its next call
\* of _trigger if it has one, else it assigns self._lastFound (line 84 or 88)
\* and returns.
TriggerReturn(e) ==
    /\ pc[e] = "dispatch"
    /\ ~HasNext(fun_register[Event(e)[1]], frame[e].idx)
    /\ IF frame[e].k < Len(frame[e].events)
       THEN /\ frame' = [frame EXCEPT
                   ![e].k = @ + 1, ![e].idx = 1,
                   ![e].pending = Members(fun_register[frame[e].events[frame[e].k + 1][1]])]
            /\ UNCHANGED <<lastFound, pc>>
       ELSE /\ lastFound' = UpdateLastFound(lastFound, frame[e].location,
                                            IsFound(frame[e].sim, threshold))
            /\ pc' = [pc EXCEPT ![e] = AfterUpdate(e)]
            /\ frame' = [frame EXCEPT ![e] = NoFrame]
    /\ fired' = IF Event(e)[1] = ON_MOVE THEN fired ELSE Event(e)
    /\ UNCHANGED <<sq_alpha, threshold, fun_register, current_thread,
                   stop_event, handle, raised, timed_out, ticked, stop_midtick, after_stop>>

\* A caller calls update() itself.
CallUpdate(c) ==
    /\ pc[c] = "idle"
    /\ current_thread = NoThread
    /\ pc' = [pc EXCEPT ![c] = "update"]
    /\ raised' = [raised EXCEPT ![c] = ""]
    /\ UNCHANGED <<sq_alpha, threshold, lastFound, fun_register, current_thread,
                   stop_event, frame, handle, fired, timed_out, ticked, stop_midtick>>
    /\ after_stop' = [after_stop EXCEPT ![c] = FALSE]

(***************************************************************************)
(* Observer.register, Observer.unregister                                  *)
(***************************************************************************)
\* The event kinds.
Kinds == {ON_FOUND, ON_LOST, ON_MOVE}

\* trigger in Observer.TRIGGERS
IsTrigger(trigger) == \E i \in 1..Len(TRIGGERS) : TRIGGERS[i] = trigger

\* list.append
ListAppend(funs, fun) == Append(funs, fun)

\* Whether list.remove finds fun.
Contains(funs, fun) == \E i \in 1..Len(funs) : funs[i] = fun

\* The index list.remove deletes: the first one that holds fun.
RemoveIndex(funs, fun) ==
    CHOOSE i \in 1..Len(funs) :
        /\ funs[i] = fun
        /\ \A j \in 1..(i - 1) : funs[j] # fun

\* A remove that deletes every occurrence of fun.
ListRemoveAll(funs, fun) == SelectSeq(funs, LAMBDA x : x # fun)

\* list.remove
ListRemove(funs, fun) ==
    LET k == RemoveIndex(funs, fun)
    IN  [i \in 1..(Len(funs) - 1) |-> IF i < k THEN funs[i] ELSE funs[i + 1]]

\* self._fun_register after register(fun, trigger) on the registry reg.
AfterRegister(reg, fun, trigger) ==
    IF IsTrigger(trigger)
    THEN [reg EXCEPT ![trigger] = ListAppend(@, fun)]
    ELSE reg

\* self._fun_register after unregister(fun, trigger) on the registry reg.
AfterUnregister(reg, fun, trigger) ==
    IF IsTrigger(trigger) /\ Contains(reg[trigger], fun)
    THEN [reg EXCEPT ![trigger] = ListRemove(@, fun)]
    ELSE reg

register(c, fun, trigger) ==
    /\ pc[c] = "idle"
    /\ fun_register' = AfterRegister(fun_register, fun, trigger)
    /\ IF IsTrigger(trigger)
       THEN raised' = [raised EXCEPT ![c] = ""]
       ELSE raised' = [raised EXCEPT ![c] = "Unknown trigger"]
    /\ UNCHANGED <<sq_alpha, threshold, lastFound, current_thread, stop_event,
                   pc, frame, handle, fired, timed_out, ticked, stop_midtick>>
    /\ after_stop' = [after_stop EXCEPT ![c] = FALSE]

unregister(c, fun, trigger) ==
    /\ pc[c] = "idle"
    /\ fun_register' = AfterUnregister(fun_register, fun, trigger)
    /\ IF ~IsTrigger(trigger)
       THEN raised' = [raised EXCEPT ![c] = "Unknown trigger"]
       ELSE IF ~Contains(fun_register[trigger], fun)
       THEN raised' = [raised EXCEPT ![c] = "ValueError"]
       ELSE raised' = [raised EXCEPT ![c] = ""]
    /\ UNCHANGED <<sq_alpha, threshold, lastFound, current_thread, stop_event,
                   pc, frame, handle, fired, timed_out, ticked, stop_midtick>>
    /\ after_stop' = [after_stop EXCEPT ![c] = FALSE]

(***************************************************************************)
(* Observer.run                                                            *)
(***************************************************************************)
\* A worker id no thread and no reference uses: the Thread and the Event
\* that run() creates are new objects.
IsFree(w) == pc[w] = "none"

NewWorker == CHOOSE w \in WorkerIds : IsFree(w) /\ \A v \in WorkerIds : IsFree(v) => w <= v

\* run() with one Event made once and used by every run.
RunCallReuse(c) ==
    /\ pc[c] = "idle"
    /\ IF current_thread # NoThread
       THEN /\ raised' = [raised EXCEPT ![c] = "Observer is already running."]
            /\ UNCHANGED <<pc, handle, stop_event, timed_out, ticked>>
       ELSE /\ \E w \in WorkerIds : IsFree(w)
            /\ raised' = [raised EXCEPT ![c] = ""]
            /\ handle' = [handle EXCEPT ![c] = NewWorker]
            /\ stop_event' = stop_event
            /\ timed_out' = [timed_out EXCEPT ![NewWorker] = FALSE]
            /\ ticked' = [ticked EXCEPT ![NewWorker] = FALSE]
            /\ pc' = [pc EXCEPT ![c] = "run_assign", ![NewWorker] = "created"]
    /\ UNCHANGED <<sq_alpha, threshold, lastFound, fun_register, current_thread,
                   frame, fired, stop_midtick, after_stop>>

\* run() without the check of lines 126 and 127.
RunCallNoCheck(c) ==
    /\ pc[c] = "idle"
    /\ \E w \in WorkerIds : IsFree(w)
    /\ raised' = [raised EXCEPT ![c] = ""]
    /\ handle' = [handle EXCEPT ![c] = NewWorker]
    /\ stop_event' = [stop_event EXCEPT ![NewWorker] = FALSE]
    /\ timed_out' = [timed_out EXCEPT ![NewWorker] = FALSE]
    /\ ticked' = [ticked EXCEPT ![NewWorker] = FALSE]
    /\ pc' = [pc EXCEPT ![c] = "run_assign", ![NewWorker] = "created"]
    /\ UNCHANGED <<sq_alpha, threshold, lastFound, fun_register, current_thread,
                   frame, fired, stop_midtick, after_stop>>

\* Lines 126 to 135: the check, and the new Event and Thread.
RunCall(c) ==
    /\ pc[c] = "idle"
    /\ IF current_thread # NoThread
       THEN /\ raised' = [raised EXCEPT ![c] = "Observer is already running."]
            /\ UNCHANGED <<pc, handle, stop_event, timed_out, ticked>>
       ELSE /\ \E w \in WorkerIds : IsFree(w)
            /\ raised' = [raised EXCEPT ![c] = ""]
            /\ handle' = [handle EXCEPT ![c] = NewWorker]
            /\ stop_event' = [stop_event EXCEPT ![NewWorker] = FALSE]
            /\ timed_out' = [timed_out EXCEPT ![NewWorker] = FALSE]
            /\ ticked' = [ticked EXCEPT ![NewWorker] = FALSE]
            /\ pc' = [pc EXCEPT ![c] = "run_assign", ![NewWorker] = "created"]
    /\ UNCHANGED <<sq_alpha, threshold, lastFound, fun_register, current_thread,
                   frame, fired, stop_midtick, after_stop>>

\* Line 136: self._current_thread = thread, stop_event
RunAssign(c) ==
    /\ pc[c] = "run_assign"
    /\ current_thread' = handle[c]
    /\ pc' = [pc EXCEPT ![c] = "run_start"]
    /\ UNCHANGED <<sq_alpha, threshold, lastFound, fun_register, stop_event,
                   frame, handle, raised, fired, timed_out, ticked,
                   stop_midtick, after_stop>>

\* A thread whose loop calls update() before its first wait.
RunStartActFirst(c) ==
    /\ pc[c] = "run_start"
    /\ pc' = [pc EXCEPT ![c] = "idle", ![handle[c]] = "update"]
    /\ handle' = [handle EXCEPT ![c] = NoThread]
    /\ UNCHANGED <<sq_alpha, threshold, lastFound, fun_register, current_thread,
                   stop_event, frame, raised, fired, timed_out, ticked,
                   stop_midtick, after_stop>>

\* Line 137: thread.start(); run() returns.
RunStart(c) ==
    /\ pc[c] = "run_start"
    /\ pc' = [pc EXCEPT ![c] = "idle", ![handle[c]] = "wait"]
    /\ handle' = [handle EXCEPT ![c] = NoThread]
    /\ UNCHANGED <<sq_alpha, threshold, lastFound, fun_register, current_thread,
                   stop_event, frame, raised, fired, timed_out, ticked,
                   stop_midtick, after_stop>>

(***************************************************************************)
(* async_run, the worker's loop                                            *)
(***************************************************************************)
\* A wait that only sleeps for the period, like time.sleep.
WaitResultSleep(flag) == FALSE

\* What stop_event.wait(update_period) returns when it returns: the flag.
WaitResult(flag) == flag

\* stop_event.wait(update_period) times out: the loop calls update().
WaitTimeout(w) ==
    /\ pc[w] = "wait"
    /\ ~WaitResult(stop_event[w])
    /\ pc' = [pc EXCEPT ![w] = "update"]
    /\ timed_out' = [timed_out EXCEPT ![w] = TRUE]
    /\ UNCHANGED <<sq_alpha, threshold, lastFound, fun_register, current_thread,
                   stop_event, frame, handle, raised, fired, ticked, stop_midtick,
                   after_stop>>

\* stop_event.wait(update_period) returns True: the loop and the thread end.
WaitCancelled(w) ==
    /\ pc[w] = "wait"
    /\ WaitResult(stop_event[w])
    /\ pc' = [pc EXCEPT ![w] = "exited"]
    /\ UNCHANGED <<sq_alpha, threshold, lastFound, fun_register, current_thread,
                   stop_event, frame, handle, raised, fired, timed_out, ticked,
                   stop_midtick, after_stop>>

(***************************************************************************)
(* Observer.stop                                                           *)
(***************************************************************************)
\* Lines 143 to 146: the check, and thread, stop_event = self._current_thread
StopCall(c) ==
    /\ pc[c] = "idle"
    /\ IF current_thread = NoThread
       THEN /\ raised' = [raised EXCEPT ![c] = "Observer is not running."]
            /\ UNCHANGED <<pc, handle>>
       ELSE /\ raised' = [raised EXCEPT ![c] = ""]
            /\ handle' = [handle EXCEPT ![c] = current_thread]
            /\ pc' = [pc EXCEPT ![c] = "stop_set"]
    /\ UNCHANGED <<sq_alpha, threshold, lastFound, fun_register, current_thread,
                   stop_event, frame, fired, timed_out, ticked, stop_midtick>>
    /\ after_stop' = [after_stop EXCEPT ![c] = FALSE]

\* The thread w is inside update().
InUpdate(w) == pc[w] \in {"update", "classify", "dispatch"}

\* Line 147: stop_event.set()
StopSet(c) ==
    /\ pc[c] = "stop_set"
    /\ stop_event' = [stop_event EXCEPT ![handle[c]] = TRUE]
    /\ pc' = [pc EXCEPT ![c] = "stop_join"]
    /\ stop_midtick' = [stop_midtick EXCEPT ![c] = InUpdate(handle[c])]
    /\ UNCHANGED <<sq_alpha, threshold, lastFound, fun_register, current_thread,
                   frame, handle, raised, fired, timed_out, ticked, after_stop>>

\* A join that does not wait for the thread.
JoinableAlways(w) == pc[w] \in {"wait", "update", "classify", "dispatch", "exited"}

\* Whether thread.join() can return: the thread has ended.
Joinable(w) == pc[w] = "exited"

\* Line 148: thread.join() returns.
StopJoin(c) ==
    /\ pc[c] = "stop_join"
    /\ Joinable(handle[c])
    /\ pc' = [pc EXCEPT ![c] = "stop_clear"]
    /\ UNCHANGED <<sq_alpha, threshold, lastFound, fun_register, current_thread,
                   stop_event, frame, handle, raised, fired, timed_out, ticked,
                   stop_midtick, after_stop>>

\* Whether stop() in caller c holds the last reference to the ended thread w
\* and its Event, so that they are collected when it returns.
LastReference(c, w) ==
    /\ pc[w] = "exited"
    /\ \A d \in DOMAIN handle \ {c} : handle[d] # w

\* A stop() that also forgets where the template was found.
StopClearReset(c) ==
    /\ pc[c] = "stop_clear"
    /\ current_thread' = NoThread
    /\ lastFound' = None
    /\ handle' = [handle EXCEPT ![c] = NoThread]
    /\ pc' = [pc EXCEPT ![c] = "idle", ![handle[c]] = "none"]
    /\ timed_out' = [timed_out EXCEPT ![handle[c]] = FALSE]
    /\ ticked' = [ticked EXCEPT ![handle[c]] = FALSE]
    /\ stop_midtick' = [stop_midtick EXCEPT ![c] = FALSE]
    /\ after_stop' = [after_stop EXCEPT ![c] = TRUE]
    /\ UNCHANGED <<sq_alpha, threshold, fun_register, stop_event, frame, raised,
                   fired>>

\* Line 149: self._current_thread = None; stop() returns.  The ended thread
\* is collected with its last reference; its Event stays as it is.
StopClear(c) ==
    /\ pc[c] = "stop_clear"
    /\ current_thread' = NoThread
    /\ handle' = [handle EXCEPT ![c] = NoThread]
    /\ LET w == handle[c]
       IN  IF LastReference(c, w)
           THEN /\ pc' = [pc EXCEPT ![c] = "idle", ![w] = "none"]
                /\ timed_out' = [timed_out EXCEPT ![w] = FALSE]
                /\ ticked' = [ticked EXCEPT ![w] = FALSE]
           ELSE /\ pc' = [pc EXCEPT ![c] = "idle"]
                /\ UNCHANGED <<timed_out, ticked>>
    /\ stop_midtick' = [stop_midtick EXCEPT ![c] = FALSE]
    /\ after_stop' = [after_stop EXCEPT ![c] = TRUE]
    /\ UNCHANGED <<sq_alpha, threshold, lastFound, fun_register, stop_event,
                   frame, raised, fired>>

(***************************************************************************)
(* The program                                                             *)
(***************************************************************************)
\* Registrations held.
TotalRegs == Len(fun_register[ON_FOUND]) + Len(fun_register[ON_LOST])
             + Len(fun_register[ON_MOVE])

CallerStep(c) ==
    \/ CallUpdate(c)
    \/ TotalRegs < MaxRegs /\ \E fun \in Callbacks, trigger \in TriggerArgs :
           register(c, fun, trigger)
    \/ \E fun \in Callbacks, trigger \in TriggerArgs : unregister(c, fun, trigger)
    \/ RunCall(c)
    \/ RunAssign(c)
    \/ RunStart(c)
    \/ StopCall(c)
    \/ StopSet(c)
    \/ StopJoin(c)
    \/ StopClear(c)

WorkerStep(w) ==
    \/ WaitTimeout(w)
    \/ WaitCancelled(w)

UpdateStep(e) ==
    \/ \E location \in Locations, val \in RawVals(sq_alpha) :
           UpdateCheck(e, location, val)
    \/ UpdateClassify(e)
    \/ TriggerCall(e)
    \/ TriggerReturn(e)

Next ==
    \/ \E c \in Callers : CallerStep(c)
    \/ \E w \in WorkerIds : WorkerStep(w)
    \/ \E e \in Executors : UpdateStep(e)

Spec == Init /\ [][Next]_vars

(***************************************************************************)
(* Listeners that do more than return, and a check() that fails            *)
(***************************************************************************)
\* An exception leaves update() in executor e: in a worker it leaves
\* async_run too and the thread ends (lines 132 to 134 catch nothing); in a
\* caller it reaches the code that called update().
Raise(e, error) ==
    /\ frame' = [frame EXCEPT ![e] = NoFrame]
    /\ IF e \in WorkerIds
       THEN /\ pc' = [pc EXCEPT ![e] = "exited"]
            /\ raised' = raised
       ELSE /\ pc' = [pc EXCEPT ![e] = "idle"]
            /\ raised' = [raised EXCEPT ![e] = error]

\* A _trigger that catches what fun(*args) raises and goes on.
ListenerRaisesIsolated(e) ==
    /\ pc[e] = "dispatch"
    /\ LET funs == fun_register[Event(e)[1]]
       IN  /\ HasNext(funs, frame[e].idx)
           /\ frame' = [frame EXCEPT
                  ![e].pending = @ \ {funs[frame[e].idx]},
                  ![e].idx = @ + 1]
    /\ UNCHANGED <<sq_alpha, threshold, lastFound, fun_register, current_thread,
                   stop_event, pc, handle, raised, fired, timed_out, ticked,
                   stop_midtick, after_stop>>

\* Line 117: fun(*args) raises.
ListenerRaises(e) ==
    /\ pc[e] = "dispatch"
    /\ HasNext(fun_register[Event(e)[1]], frame[e].idx)
    /\ Raise(e, "listener")
    /\ UNCHANGED <<sq_alpha, threshold, lastFound, fun_register, current_thread,
                   stop_event, handle, fired, timed_out, ticked, stop_midtick,
                   after_stop>>

\* Line 117: fun(*args) calls register(fun, trigger) and returns.
ListenerRegisters(e, fun, trigger) ==
    /\ pc[e] = "dispatch"
    /\ LET funs == fun_register[Event(e)[1]]
       IN  /\ HasNext(funs, frame[e].idx)
           /\ frame' = [frame EXCEPT
                  ![e].pending = @ \ {funs[frame[e].idx]},
                  ![e].idx = @ + 1]
    /\ IsTrigger(trigger)
    /\ fun_register' = AfterRegister(fun_register, fun, trigger)
    /\ UNCHANGED <<sq_alpha, threshold, lastFound, current_thread, stop_event,
                   pc, handle, raised, fired, timed_out, ticked, stop_midtick,
                   after_stop>>

\* Line 117: fun(*args) calls unregister(fun, trigger), which finds fun, and
\* returns.
ListenerUnregisters(e, fun, trigger) ==
    /\ pc[e] = "dispatch"
    /\ LET funs == fun_register[Event(e)[1]]
       IN  /\ HasNext(funs, frame[e].idx)
           /\ frame' = [frame EXCEPT
                  ![e].pending = @ \ {funs[frame[e].idx]},
                  ![e].idx = @ + 1]
    /\ IsTrigger(trigger)
    /\ Contains(fun_register[trigger], fun)
    /\ fun_register' = AfterUnregister(fun_register, fun, trigger)
    /\ UNCHANGED <<sq_alpha, threshold, lastFound, current_thread, stop_event,
                   pc, handle, raised, fired, timed_out, ticked, stop_midtick,
                   after_stop>>

\* A stop() whose join returns at once in the thread it joins: it clears the
\* handle and returns to the listener, and the dispatch goes on.
ListenerStopsJoins(e) ==
    /\ pc[e] = "dispatch"
    /\ current_thread = e
    /\ LET funs == fun_register[Event(e)[1]]
       IN  /\ HasNext(funs, frame[e].idx)
           /\ frame' = [frame EXCEPT
                  ![e].pending = @ \ {funs[frame[e].idx]},
                  ![e].idx = @ + 1]
    /\ stop_event' = [stop_event EXCEPT ![e] = TRUE]
    /\ current_thread' = NoThread
    /\ UNCHANGED <<sq_alpha, threshold, lastFound, fun_register, pc, handle,
                   raised, fired, timed_out, ticked, stop_midtick, after_stop>>

\* Line 117: fun(*args) calls stop().  Without a handle stop() raises at line
\* 144; in the worker the handle names, stop() sets the Event (line 147) and
\* thread.join() (line 148) raises RuntimeError, as a thread cannot join
\* itself, so that line 149 is not reached.
ListenerStops(e) ==
    /\ pc[e] = "dispatch"
    /\ HasNext(fun_register[Event(e)[1]], frame[e].idx)
    /\ current_thread \in {NoThread, e}
    /\ IF current_thread = NoThread
       THEN /\ Raise(e, "Observer is not running.")
            /\ stop_event' = stop_event
       ELSE /\ stop_event' = [stop_event EXCEPT ![current_thread] = TRUE]
            /\ Raise(e, "RuntimeError")
    /\ UNCHANGED <<sq_alpha, threshold, lastFound, fun_register, current_thread,
                   handle, fired, timed_out, ticked, stop_midtick, after_stop>>

\* Line 74: check() raises in the capture (lines 53 to 58) or in the matcher
\* (lines 61 and 62), which the degenerate template does not reach.
CheckRaises(e) ==
    /\ pc[e] = "update"
    /\ sq_alpha # 0
    /\ Raise(e, "check")
    /\ ticked' = [w \in WorkerIds |-> w = e \/ ticked[w]]
    /\ UNCHANGED <<sq_alpha, threshold, lastFound, fun_register, current_thread,
                   stop_event, handle, fired, timed_out, stop_midtick, after_stop>>

ListenerStep(e) ==
    \/ ListenerRaises(e)
    \/ \E fun \in Callbacks, trigger \in Kinds :
           TotalRegs < MaxRegs /\ ListenerRegisters(e, fun, trigger)
    \/ \E fun \in Callbacks, trigger \in Kinds : ListenerUnregisters(e, fun, trigger)
    \/ ListenerStops(e)
    \/ CheckRaises(e)

\* The program with such listeners and such a check().
NextListeners ==
    \/ Next
    \/ \E e \in Executors : ListenerStep(e)

SpecListeners == Init /\ [][NextListeners]_vars

\* Caller c takes a step of run() or of stop().
LifecycleStep(c) ==
    \/ RunCall(c) \/ RunAssign(c) \/ RunStart(c)
    \/ StopCall(c) \/ StopSet(c) \/ StopJoin(c) \/ StopClear(c)

(***************************************************************************)
(* Two threads that call run() and stop()                                  *)
(***************************************************************************)
\* The Observer after its construction and register("f", ON_FOUND).
InitTwoCallers ==
    /\ \E o \in Observers :
           /\ o[1].dim \in {3, 4}
           /\ sq_alpha = SqAlpha(o[1])
           /\ threshold = o[2]
    /\ lastFound = None
    /\ fun_register = AfterRegister([t \in Kinds |-> <<>>], "f", ON_FOUND)
    /\ current_thread = NoThread
    /\ stop_event = [w \in WorkerIds |-> FALSE]
    /\ pc = [e \in TwoCallers \cup WorkerIds |->
                IF e \in TwoCallers THEN "idle" ELSE "none"]
    /\ frame = [e \in TwoCallers \cup WorkerIds |-> NoFrame]
    /\ handle = [c \in TwoCallers |-> NoThread]
    /\ raised = [c \in TwoCallers |-> ""]
    /\ fired = <<NoTrigger, None>>
    /\ timed_out = [w \in WorkerIds |-> FALSE]
    /\ ticked = [w \in WorkerIds |-> FALSE]
    /\ stop_midtick = [c \in TwoCallers |-> FALSE]
    /\ after_stop = [c \in TwoCallers |-> FALSE]

\* Both threads call run(); the main thread calls stop().
NextTwoCallers ==
    \/ \E c \in TwoCallers : RunCall(c) \/ RunAssign(c) \/ RunStart(c)
    \/ \E c \in Callers : StopCall(c) \/ StopSet(c) \/ StopJoin(c) \/ StopClear(c)
    \/ \E w \in WorkerIds : WorkerStep(w)
    \/ \E w \in WorkerIds : UpdateStep(w)

SpecTwoCallers == InitTwoCallers /\ [][NextTwoCallers]_vars

\* A program that only registers and unregisters.
RegistryStep(c) ==
    \/ TotalRegs < MaxLen /\ \E fun \in Callbacks, trigger \in TriggerArgs :
           register(c, fun, trigger)
    \/ \E fun \in Callbacks, trigger \in TriggerArgs : unregister(c, fun, trigger)

NextRegistry == \E c \in Callers : RegistryStep(c)

SpecRegistry == Init /\ [][NextRegistry]_vars

\* The steps a worker thread takes without waiting for time to pass: it
\* notices the set Event, and it goes on inside update().
WorkerRuns(w) ==
    \/ WaitCancelled(w)
    \/ UpdateStep(w)

\* The steps of stop() after its check.
StopRuns(c) ==
    \/ StopSet(c)
    \/ StopJoin(c)
    \/ StopClear(c)

\* Spec with fair scheduling of the threads: a worker that can go on
\* without a timeout does, and so does a caller inside stop().  Listeners and
\* check() return, so every update() ends.
SpecFair ==
    /\ Spec
    /\ \A w \in WorkerIds : WF_vars(WorkerRuns(w))
    /\ \A c \in Callers : WF_vars(StopRuns(c))

(***************************************************************************)
(* The transition table of spec.md section 4.2, as the specification       *)
(* states it.                                                              *)
(***************************************************************************)
\* similarity >= threshold
AtLeastThreshold(sim) == sim[1] * 100 >= threshold * sim[2]

\* The row of the table for the state last and the match (location, sim):
\* the event (NoTrigger for none), its payload and the next state.
TableRow(last, location, sim) ==
    IF last = None
    THEN IF AtLeastThreshold(sim)
         THEN [event |-> ON_FOUND, payload |-> location, next |-> location]
         ELSE [event |-> NoTrigger, payload |-> None, next |-> None]
    ELSE IF AtLeastThreshold(sim)
         THEN IF location = last
              THEN [event |-> NoTrigger, payload |-> None, next |-> last]
              ELSE [event |-> ON_MOVE, payload |-> location, next |-> location]
         ELSE [event |-> ON_LOST, payload |-> last, next |-> None]

\* The executor e is inside update() after check() returned.
InTick(e) == pc[e] \in {"classify", "dispatch"}

\* What one step of executor e's tick does, against the table.
TickFollowsTable(e) ==
    LET row == TableRow(lastFound, frame[e].location, frame[e].sim)
    IN  /\ (pc[e] = "classify" /\ pc'[e] # "classify") =>
               IF row.event = NoTrigger
               THEN pc'[e] = AfterUpdate(e) /\ lastFound' = row.next
               ELSE /\ pc'[e] = "dispatch"
                    /\ frame'[e].events = << <<row.event, row.payload>> >>
                    /\ lastFound' = lastFound
        /\ (pc[e] = "dispatch" /\ pc'[e] = "dispatch") => lastFound' = lastFound
        /\ (pc[e] = "dispatch" /\ pc'[e] # "dispatch") =>
               /\ pc'[e] = AfterUpdate(e)
               /\ lastFound' = row.next

\* C1: every tick fires the event of the transition table and leaves the
\* state the table gives: Absent and similarity >= threshold fires
\* FOUND(location) and becomes Present(location); Present(last), similarity >=
\* threshold: nothing at the same location, MOVED(location) and
\* Present(location) at another; Present(last) below the threshold fires
\* LOST(last) and becomes Absent; Absent below the threshold fires nothing.
\* A similarity equal to the threshold counts as found.
C1_TransitionTable == [][\A e \in Executors : TickFollowsTable(e)]_vars

\* A tick of a Present Observer that matched elsewhere with a similarity
\* exactly equal to the threshold 0.95 is dispatching MOVED(location).
C1_Witness ==
    \E e \in Executors :
        /\ pc[e] = "dispatch"
        /\ threshold = 95
        /\ frame[e].sim[1] * 100 = threshold * frame[e].sim[2]
        /\ lastFound # None
        /\ frame[e].location # lastFound
        /\ frame[e].events = << <<ON_MOVE, frame[e].location>> >>

\* C2: every tick fires zero or exactly one event: no update() calls
\* _trigger twice, so never FOUND and MOVED (or any two of FOUND, MOVED,
\* LOST) in one tick, whatever the previous state and the match.
C2_AtMostOneEvent ==
    \A e \in Executors :
        /\ Len(frame[e].events) <= 1
        /\ InTick(e) => Cardinality({frame[e].events[i][1] : i \in DOMAIN frame[e].events}) <= 1

\* A tick is calling the FOUND listeners for a location other than the one
\* where the template was last lost.
C2_Witness ==
    \E e \in Executors :
        /\ pc[e] = "dispatch"
        /\ fired[1] = ON_LOST
        /\ frame[e].events = << <<ON_FOUND, frame[e].location>> >>
        /\ frame[e].location # fired[2]
        /\ frame[e].idx > 1

\* Whether an event of kind trigger may follow the last FOUND or LOST, prev.
MayFollow(prev, trigger) ==
    IF trigger = ON_FOUND THEN prev \in {NoTrigger, ON_LOST}
    ELSE prev = ON_FOUND

\* C3: over any sequence of ticks FOUND and LOST alternate, starting with
\* FOUND: a tick fires FOUND only when no FOUND or LOST was fired yet or the
\* last of them was LOST, and fires LOST or MOVED only when the last of them
\* was FOUND.
C3_Alternation ==
    [][\A e \in Executors :
          (pc[e] = "classify" /\ pc'[e] = "dispatch") =>
              \A i \in DOMAIN frame'[e].events :
                  MayFollow(IF i = 1 THEN fired[1] ELSE frame'[e].events[i - 1][1],
                            frame'[e].events[i][1])]_vars

\* A tick is dispatching LOST for a template that was found at one location
\* and has moved to another since.
C3_Witness ==
    \E e \in Executors :
        /\ pc[e] = "dispatch"
        /\ frame[e].events = << <<ON_LOST, lastFound>> >>
        /\ fired[1] = ON_FOUND
        /\ fired[2] # lastFound

\* The worker thread w runs: it waits, or is inside update().
Live(w) == pc[w] = "wait" \/ InUpdate(w)

\* The caller c is inside stop() and thread.join() has returned.
JoinReturned(c) == pc[c] = "stop_clear"

\* C4: once stop() has returned and until a later start(), no tick starts or
\* is in progress and the worker calls no listener: when thread.join() has
\* returned, and for as long as the handle is cleared, no worker is live and
\* no update() of a worker is part way; a tick in progress when stop() set
\* the event has then run to its end.
C4_NoTickAfterStop ==
    /\ \A c \in Callers :
           JoinReturned(c) =>
               /\ ~Live(handle[c])
               /\ frame[handle[c]] = NoFrame
               /\ stop_midtick[c] => ticked[handle[c]]
    /\ current_thread = NoThread =>
           \A w \in WorkerIds : ~Live(w) /\ frame[w] = NoFrame

\* stop() set the event while the worker was inside update(), and
\* thread.join() has returned after that update().
C4_Witness ==
    \E c \in Callers :
        /\ JoinReturned(c)
        /\ stop_midtick[c]
        /\ ticked[handle[c]]
        /\ pc[handle[c]] = "exited"

\* C5: run() on an Observer that has a handle raises and leaves the handle,
\* the worker and _lastFound as they are; stop() on an Observer without a
\* handle raises and changes nothing; stop() returns with the handle cleared
\* and a thread free to be created, and run() without a handle does not raise
\* and makes a new thread with a new Event whose flag is not set, which
\* run() then starts.
C5_Lifecycle ==
    [][\A c \in Callers :
          /\ (RunCall(c) /\ current_thread # NoThread) =>
                 /\ raised'[c] = "Observer is already running."
                 /\ UNCHANGED <<current_thread, stop_event, lastFound, pc, frame,
                                handle, fun_register>>
          /\ (StopCall(c) /\ current_thread = NoThread) =>
                 /\ raised'[c] = "Observer is not running."
                 /\ UNCHANGED <<current_thread, stop_event, lastFound, pc, frame,
                                handle, fun_register>>
          /\ StopClear(c) =>
                 /\ current_thread' = NoThread
                 /\ pc'[c] = "idle"
                 /\ \E w \in WorkerIds : pc'[w] = "none"
          /\ (RunCall(c) /\ current_thread = NoThread) =>
                 /\ raised'[c] = ""
                 /\ pc'[c] = "run_assign"
                 /\ handle'[c] \in WorkerIds
                 /\ pc[handle'[c]] = "none"
                 /\ pc'[handle'[c]] = "created"
                 /\ ~stop_event'[handle'[c]]
          /\ RunStart(c) =>
                 /\ current_thread = handle[c]
                 /\ pc'[handle[c]] = "wait"
                 /\ ~stop_event'[handle[c]]
                 /\ pc'[c] = "idle"]_vars

\* stop() returned and the run() called right after it has returned too: the
\* handle is set and its new worker waits on an Event that is not set.
C5_Witness ==
    \E c \in Callers :
        /\ after_stop[c]
        /\ pc[c] = "idle"
        /\ raised[c] = ""
        /\ current_thread \in WorkerIds
        /\ pc[current_thread] = "wait"
        /\ ~stop_event[current_thread]

\* C6: with start() and stop() called one at a time by one caller, at most
\* one worker is live and at most one tick is in progress at any moment, and
\* a worker is live only while it is the one the handle names.
C6_OneWorker ==
    /\ Cardinality({w \in WorkerIds : Live(w)}) <= 1
    /\ Cardinality({e \in Executors : InUpdate(e)}) <= 1
    /\ \A w \in WorkerIds : Live(w) => current_thread = w

\* run() has just failed on a running Observer whose one worker is calling
\* listeners.
C6_Witness ==
    \E c \in Callers :
        /\ raised[c] = "Observer is already running."
        /\ pc[c] = "idle"
        /\ current_thread \in WorkerIds
        /\ pc[current_thread] = "dispatch"
        /\ frame[current_thread].idx > 1
        /\ {w \in WorkerIds : Live(w)} = {current_thread}

\* The worker w waits before it acts, in one state: it is inside update()
\* or has called it only if a wait of its run has timed out, and a run whose
\* Event was set before any wait timed out has called no update().
WaitsFirst(w) ==
    /\ (InUpdate(w) \/ ticked[w]) => timed_out[w]
    /\ (Live(w) /\ stop_event[w] /\ ~timed_out[w]) => pc[w] = "wait"

\* C7: the worker waits before it acts: a started worker waits, it enters
\* update() only from a wait that timed out with the Event not set, so no
\* tick comes before the first full period, and once the Event is set before
\* the first timeout no wait of the run times out and the run ends without a
\* tick.
C7_WaitThenAct ==
    [][\A w \in WorkerIds :
          /\ WaitsFirst(w)
          /\ WaitsFirst(w)'
          /\ (pc[w] = "created" /\ pc'[w] # "created") =>
                 pc'[w] = "wait" /\ ~timed_out'[w] /\ ~ticked'[w]
          /\ (pc[w] # "update" /\ pc'[w] = "update") =>
                 pc[w] = "wait" /\ ~stop_event[w] /\ timed_out'[w]
          /\ (Live(w) /\ stop_event[w] /\ ~timed_out[w]) =>
                 /\ ~timed_out'[w]
                 /\ ~ticked'[w]
                 /\ pc'[w] \in {"wait", "exited"}]_vars

\* A run whose Event was set before its first wait timed out has ended
\* without a tick; the caller is still inside stop().
C7_Witness ==
    \E c \in Callers :
        /\ pc[c] \in {"stop_join", "stop_clear"}
        /\ pc[handle[c]] = "exited"
        /\ stop_event[handle[c]]
        /\ ~timed_out[handle[c]]
        /\ ~ticked[handle[c]]

\* C8: under fair scheduling every stop() that found a handle returns, and
\* once the Event of a live worker is set the worker leaves no further wait
\* by timeout: it ends the update() it is in, if any, and ends at its next
\* wait, so it starts at most the one tick it was committed to.
C8_StopReturns ==
    /\ \A c \in Callers : (pc[c] = "stop_set") ~> (pc[c] = "idle" /\ current_thread = NoThread)
    /\ [][\A w \in WorkerIds :
             (Live(w) /\ stop_event[w]) =>
                 /\ ~(pc[w] = "wait" /\ pc'[w] = "update")
                 /\ pc[w] = "wait" => pc'[w] \in {"wait", "exited"}
                 /\ (InUpdate(w) /\ pc[w] # "update") => pc'[w] # "update"]_vars

\* The worker was committed to a tick when stop() set the Event: it is
\* inside that update(), calling listeners, while the caller waits in join.
C8_Witness ==
    \E c \in Callers :
        /\ pc[c] = "stop_join"
        /\ stop_event[handle[c]]
        /\ pc[handle[c]] = "dispatch"
        /\ frame[handle[c]].idx > 1

\* C9: firing an event calls every callback registered for its kind, once
\* per registration, in registration order, each with the payload of the
\* event.  Stated in the part that holds however "registered" is read: when
\* _trigger returns, it has called every function that was in the list of the
\* event when the event was fired and that is in it still.
C9_AllCalled ==
    [][\A e \in Executors :
          (pc[e] = "dispatch" /\ (pc'[e] # "dispatch" \/ frame'[e].k # frame[e].k)) =>
              frame[e].pending \cap Members(fun_register[Event(e)[1]]) = {}]_vars

\* C10: for every registry content, every callback and every event kind,
\* register(callback, kind) followed by unregister(callback, kind) returns
\* the registry to its prior content and order, also when the callback was
\* already registered for that kind among other callbacks.
C10_RoundTrip ==
    \A fun \in Callbacks, trigger \in {ON_FOUND, ON_LOST, ON_MOVE} :
        AfterUnregister(AfterRegister(fun_register, fun, trigger), fun, trigger)
            = fun_register

\* How often fun occurs in funs.
Count(funs, fun) == Cardinality({i \in DOMAIN funs : funs[i] = fun})

\* funs without its element at index i, the others in their order.
WithoutIndex(funs, i) ==
    [j \in 1..(Len(funs) - 1) |-> IF j < i THEN funs[j] ELSE funs[j + 1]]

\* C11: unregister(callback, kind) removes exactly one occurrence of the
\* callback from the sequence of that kind and leaves the other sequences and
\* the order of the remaining callbacks as they are; it fails when the
\* callback is not registered for that kind; register and unregister fail
\* when the kind is not FOUND, LOST or MOVED; a failing call leaves the whole
\* registry as it is.
C11_Unregister ==
    [][\A c \in Callers, fun \in Callbacks, trigger \in TriggerArgs :
          /\ unregister(c, fun, trigger) =>
                 IF trigger \notin Kinds \/ Count(fun_register[trigger], fun) = 0
                 THEN raised'[c] # "" /\ fun_register' = fun_register
                 ELSE /\ raised'[c] = ""
                      /\ \E i \in DOMAIN fun_register[trigger] :
                             /\ fun_register[trigger][i] = fun
                             /\ fun_register'[trigger] = WithoutIndex(fun_register[trigger], i)
                      /\ \A t \in Kinds \ {trigger} : fun_register'[t] = fun_register[t]
          /\ (register(c, fun, trigger) /\ trigger \notin Kinds) =>
                 raised'[c] # "" /\ fun_register' = fun_register]_vars

\* An unregister has failed for a callback that is not registered for its
\* kind while it is registered twice, around another callback, for FOUND.
C11_Witness ==
    /\ raised[MainThread] = "ValueError"
    /\ fun_register[ON_FOUND] = <<"f", "g", "f">>
    /\ fun_register[ON_LOST] = <<>>
    /\ fun_register[ON_MOVE] = <<>>

\* The loop of the _trigger that executor e executes has come to its end.
LoopEnded(e) ==
    /\ pc[e] = "dispatch"
    /\ ~HasNext(fun_register[Event(e)[1]], frame[e].idx)

\* C12: when register or unregister changes the sequence of a kind while a
\* dispatch for that kind is in progress, from another thread or from a
\* listener of that dispatch, the callbacks called are the sequence before
\* the change or the sequence after it, so that no registered callback is
\* skipped: when the loop of _trigger has ended, no function that was in the
\* sequence when the event was fired, and is in it now, is left uncalled.
C12_NoneSkipped ==
    \A e \in Executors :
        LoopEnded(e) =>
            frame[e].pending \cap Members(fun_register[Event(e)[1]]) = {}

\* C13: from Absent, consecutive ticks that all return the same location
\* with a similarity >= threshold fire FOUND once, on the first of them, and
\* nothing on the later ones, and the state stays Present(location): the tick
\* of an Absent Observer that matches fires FOUND(location) and nothing
\* else, its dispatch ends in Present(location), and a tick that matches at
\* the location of Present(location) calls no listener and keeps the state.
C13_FoundOnce ==
    [][\A e \in Executors :
          LET location == frame[e].location
              matches  == AtLeastThreshold(frame[e].sim)
          IN  /\ (pc[e] = "classify" /\ pc'[e] # "classify" /\ matches
                    /\ lastFound = None) =>
                     /\ pc'[e] = "dispatch"
                     /\ frame'[e].events = << <<ON_FOUND, location>> >>
              /\ (pc[e] = "dispatch" /\ pc'[e] # "dispatch"
                    /\ Event(e)[1] = ON_FOUND) =>
                     /\ frame[e].k = Len(frame[e].events)
                     /\ lastFound' = location
              /\ (pc[e] = "classify" /\ pc'[e] # "classify" /\ matches
                    /\ lastFound = location) =>
                     /\ pc'[e] = AfterUpdate(e)
                     /\ lastFound' = location
                     /\ fired' = fired]_vars

\* FOUND(location) was the last event fired, the Observer is
\* Present(location), and a later tick has matched at that location again.
C13_Witness ==
    \E e \in Executors :
        /\ pc[e] = "classify"
        /\ fired = <<ON_FOUND, lastFound>>
        /\ frame[e].location = lastFound
        /\ AtLeastThreshold(frame[e].sim)
        /\ sq_alpha # 0

\* The sentinel location of the degenerate template.
Sentinel == <<0, 0>>

\* What holds of an Observer with a degenerate template in every state.
DegenerateState ==
    /\ lastFound \in {None, Sentinel}
    /\ fired \in {<<NoTrigger, None>>, <<ON_FOUND, Sentinel>>}
    /\ \A e \in Executors :
           /\ InTick(e) => frame[e].location = Sentinel /\ frame[e].sim = <<1, 1>>
           /\ pc[e] = "dispatch" =>
                  /\ lastFound = None
                  /\ frame[e].events = << <<ON_FOUND, Sentinel>> >>
    /\ \A w \in WorkerIds : (ticked[w] /\ ~InUpdate(w)) => lastFound = Sentinel

\* C14: with a degenerate template (sqAlpha = 0) and any threshold, check()
\* returns the location (0,0) and the similarity 1 whatever the screen shows;
\* the first tick fires FOUND((0,0)), a later tick fires nothing, LOST and
\* MOVED are never fired, and the Observer is Present((0,0)) from the end of
\* the first tick on.
C14_Degenerate ==
    [][sq_alpha = 0 =>
          /\ DegenerateState'
          /\ lastFound = Sentinel => lastFound' = Sentinel
          /\ \A e \in Executors :
                 (pc[e] = "classify" /\ pc'[e] # "classify") =>
                     IF lastFound = None
                     THEN frame'[e].events = << <<ON_FOUND, Sentinel>> >>
                     ELSE pc'[e] = AfterUpdate(e)]_vars

\* An Observer with a degenerate template and the threshold 1 has fired
\* FOUND((0,0)), is Present((0,0)), and check() has returned in a later tick.
C14_Witness ==
    \E e \in Executors :
        /\ sq_alpha = 0
        /\ threshold = 100
        /\ fired = <<ON_FOUND, Sentinel>>
        /\ lastFound = Sentinel
        /\ pc[e] = "classify"

\* C15: _lastFound is changed only by tick processing: register, unregister,
\* run() and stop(), raising or not, leave it as it is, so that a tick after
\* stop() and run() of a Present Observer fires no FOUND; and the state
\* becomes Absent only when LOST has been dispatched.
C15_OnlyTicksChangeState ==
    [][/\ lastFound' # lastFound =>
              /\ \A c \in Callers :
                     /\ ~LifecycleStep(c)
                     /\ \A fun \in Callbacks, trigger \in TriggerArgs :
                            /\ ~register(c, fun, trigger)
                            /\ ~unregister(c, fun, trigger)
              /\ \E e \in Executors : InTick(e) /\ pc'[e] # pc[e]
       /\ (lastFound # None /\ lastFound' = None) =>
              \E e \in Executors :
                  /\ pc[e] = "dispatch" /\ pc'[e] # "dispatch"
                  /\ Event(e)[1] = ON_LOST
       /\ \A e \in Executors :
              (pc[e] = "classify" /\ pc'[e] = "dispatch" /\ lastFound # None) =>
                  frame'[e].events[1][1] # ON_FOUND]_vars

\* stop() has returned, run() has been called since, and the new worker's
\* first tick has matched where the Observer, still Present, last found the
\* template.
C15_Witness ==
    \E c \in Callers :
        /\ after_stop[c]
        /\ current_thread \in WorkerIds
        /\ pc[current_thread] = "classify"
        /\ lastFound # None
        /\ frame[current_thread].location = lastFound
        /\ AtLeastThreshold(frame[current_thread].sim)

\* C16: a failure raised during a background tick, by the capture, by the
\* matcher or by a listener, ends that tick only and not the polling loop:
\* the worker that the handle names has not ended while its Event is not set.
C16_LoopSurvives ==
    \A w \in WorkerIds :
        (current_thread = w /\ ~stop_event[w]) => pc[w] # "exited"

\* Whether the rational sim is 1 - val / (195075 * pixels) clipped to [0,1];
\* between 0 and 1 it is (largest - val) / largest, over that denominator.
IsClippedSimilarity(sim, val, pixels) ==
    LET largest == 195075 * pixels
    IN  /\ sim[2] > 0
        /\ 0 <= sim[1] /\ sim[1] <= sim[2]
        /\ IF val <= 0 THEN sim[1] = sim[2]
           ELSE IF val >= largest THEN sim[1] = 0
           ELSE sim[2] = largest /\ sim[1] = largest - val

\* The opaque pixels of a template with an alpha channel.
Opaque(template) == Cardinality({i \in DOMAIN template.alpha : template.alpha[i] = 255})

\* C17: for every raw distance, negative ones and ones above MAX_DIFF *
\* sqAlpha included, and every template that is not degenerate, check()
\* returns 1 - rawDistance / (MAX_DIFF * sqAlpha) clipped to [0,1], with
\* MAX_DIFF = 3 * 255 * 255 and sqAlpha the pixel count of a 3-channel
\* template: a distance of 0 gives 1, a distance of MAX_DIFF * sqAlpha or
\* more gives 0.
C17_Similarity ==
    [][\A e \in Executors :
          (pc[e] = "update" /\ sq_alpha # 0) =>
              \A location \in Locations, val \in RawVals(sq_alpha) :
                  UpdateCheck(e, location, val) =>
                      /\ frame'[e].location = location
                      /\ IsClippedSimilarity(frame'[e].sim, val, sq_alpha)
                      /\ \E o \in Observers :
                             /\ threshold = o[2]
                             /\ sq_alpha = IF o[1].dim = 3
                                           THEN o[1].shape[1] * o[1].shape[2]
                                           ELSE Opaque(o[1])]_vars

\* check() has returned the similarity 0 for a 3-channel template of four
\* pixels: the raw distance was the largest possible one or more.
C17_Witness ==
    \E e \in Executors :
        /\ pc[e] = "classify"
        /\ sq_alpha = 4
        /\ frame[e].sim[1] = 0

\* C18: of two run() calls that two threads make at the same time on an
\* Observer that is not running, one succeeds and the other raises, so that
\* two workers are never live together and no worker is without a handle:
\* when a run() starts its thread, the handle names the thread started, and
\* that thread is the only live worker.
C18_OneStartWins ==
    [][\A c \in TwoCallers :
          RunStart(c) =>
              /\ current_thread = handle[c]
              /\ \A w \in WorkerIds : Live(w)' => w = handle[c]]_vars

\* C19: when a listener raises during a tick, the callbacks after it are not
\* called and _lastFound keeps the value it had before the tick, whatever the
\* event, so that the next tick classifies against the same state and fires
\* the same kind again from its first callback; in a background run the
\* worker ends while the handle stays set, and run() raises as already
\* running.
C19_ListenerRaises ==
    [][/\ \A e \in Executors :
             /\ ListenerRaises(e) =>
                    /\ lastFound' = lastFound
                    /\ fun_register' = fun_register
                    /\ frame'[e] = NoFrame
                    /\ current_thread' = current_thread
                    /\ IF e \in WorkerIds
                       THEN /\ pc'[e] = "exited"
                            /\ current_thread = e
                            /\ stop_event' = stop_event
                       ELSE pc'[e] = "idle" /\ raised'[e] # ""
             /\ (pc[e] = "classify" /\ pc'[e] = "dispatch") =>
                    /\ frame'[e].idx = 1
                    /\ frame'[e].events[1][1]
                           = TableRow(lastFound, frame[e].location, frame[e].sim).event
       /\ \A c \in Callers :
              (RunCall(c) /\ current_thread \in WorkerIds
                    /\ pc[current_thread] = "exited") =>
                  /\ raised'[c] = "Observer is already running."
                  /\ current_thread' = current_thread]_vars

\* With a degenerate template, whose check() cannot raise, the worker has
\* ended in the dispatch of FOUND while its Event is not set: the Observer is
\* still Absent, the handle still names the worker, and run() has raised.
C19_Witness ==
    \E w \in WorkerIds :
        /\ sq_alpha = 0
        /\ pc[w] = "exited"
        /\ current_thread = w
        /\ ~stop_event[w]
        /\ lastFound = None
        /\ raised[MainThread] = "Observer is already running."

\* C20: stop() called from a listener that runs on the worker sets the Event
\* and raises, as the worker cannot join itself, without clearing the
\* handle; that ends the tick and the worker, and the Observer counts as
\* running, run() raising, until a stop() of another thread clears the
\* handle.
C20_StopFromListener ==
    [][/\ \A w \in WorkerIds :
              (ListenerStops(w) /\ current_thread = w) =>
                  /\ stop_event'[w]
                  /\ current_thread' = w
                  /\ pc'[w] = "exited"
                  /\ frame'[w] = NoFrame
                  /\ lastFound' = lastFound
       /\ (current_thread # NoThread /\ current_thread' = NoThread) =>
              \E c \in Callers : StopClear(c)
       /\ \A c \in Callers :
              (RunCall(c) /\ current_thread # NoThread) =>
                  /\ raised'[c] = "Observer is already running."
                  /\ current_thread' = current_thread]_vars

\* The worker has ended with its Event set and the handle still naming it,
\* while the main thread is in no call: a listener has called stop().
C20_Witness ==
    \E w \in WorkerIds :
        /\ pc[w] = "exited"
        /\ stop_event[w]
        /\ current_thread = w
        /\ pc[MainThread] = "idle"

=============================================================================
